---- MODULE Spec2Model ----
(***************************************************************************)
(* A model of the SYGN sky-grid utilities, the Star and Planet photon      *)
(* sources and the maximum likelihood extraction module.                   *)
(*                                                                         *)
(* Numbers.  The program computes in IEEE floating point.  The model keeps *)
(* every finite value as an exact fraction n/d in lowest terms and keeps   *)
(* the non-finite values (NaN, +Inf, -Inf) that numpy's division produces  *)
(* as values of their own, so a division by zero is visible in the result. *)
(* Rounding of finite values is not modelled.                              *)
(***************************************************************************)
EXTENDS Integers, Sequences, FiniteSets, TLC

\* Python's None: the value of a field or local that is not set yet.  Whether a
\* field is set is read from the "set"/"pc" fields beside it, never by comparing.
None == << >>

Abs(i) == IF i < 0 THEN -i ELSE i
Sign(i) == IF i > 0 THEN 1 ELSE IF i < 0 THEN -1 ELSE 0

RECURSIVE GCD(_, _)
GCD(a, b) == IF b = 0 THEN a ELSE GCD(b, a % b)

\* The finite float n/d, d > 0, in lowest terms.
Num(n, d) ==
    LET g == GCD(Abs(n), Abs(d))
        s == Sign(d)
    IN [k |-> "fin", n |-> (s * n) \div g, d |-> Abs(d) \div g]

Int2F(i) == [k |-> "fin", n |-> i, d |-> 1]
Zero == Int2F(0)
NaN == [k |-> "nan", n |-> 0, d |-> 1]
\* s = 1 is +Inf, s = -1 is -Inf.
Inf(s) == [k |-> "inf", n |-> s, d |-> 1]

IsFinite(x) == x.k = "fin"
IsNaN(x) == x.k = "nan"

FNeg(x) == [x EXCEPT !.n = -x.n]

\* x + y of IEEE arithmetic.
FAdd(x, y) ==
    IF IsNaN(x) \/ IsNaN(y) THEN NaN
    ELSE IF x.k = "inf" /\ y.k = "inf" THEN (IF x.n = y.n THEN x ELSE NaN)
    ELSE IF x.k = "inf" THEN x
    ELSE IF y.k = "inf" THEN y
    ELSE LET g == GCD(x.d, y.d)
         IN Num(x.n * (y.d \div g) + y.n * (x.d \div g), (x.d \div g) * y.d)

FSub(x, y) == FAdd(x, FNeg(y))

\* x * y of IEEE arithmetic: 0 * Inf is NaN.
FMul(x, y) ==
    IF IsNaN(x) \/ IsNaN(y) THEN NaN
    ELSE IF x.k = "inf" \/ y.k = "inf"
         THEN (IF x.n = 0 \/ y.n = 0 THEN NaN ELSE Inf(Sign(x.n) * Sign(y.n)))
    ELSE LET g1 == GCD(Abs(x.n), y.d)
             g2 == GCD(Abs(y.n), x.d)
         IN Num((x.n \div g1) * (y.n \div g2), (x.d \div g2) * (y.d \div g1))

\* x / y of numpy's true division: a division by zero warns and yields
\* Inf (or NaN for 0 / 0), it does not raise.
FDiv(x, y) ==
    IF IsNaN(x) \/ IsNaN(y) THEN NaN
    ELSE IF y.k = "inf" THEN (IF x.k = "inf" THEN NaN ELSE Zero)
    ELSE IF y.n = 0 THEN (IF x.n = 0 THEN NaN ELSE Inf(Sign(x.n)))
    ELSE IF x.k = "inf" THEN Inf(Sign(x.n) * Sign(y.n))
    ELSE FMul(x, Num(y.d * Sign(y.n), Abs(y.n)))

\* x <= y; every comparison with NaN is false.
FLe(x, y) ==
    IF IsNaN(x) \/ IsNaN(y) THEN FALSE
    ELSE IF x.k = "inf" THEN (x.n = -1 \/ x = y)
    ELSE IF y.k = "inf" THEN y.n = 1
    ELSE x.n * y.d <= y.n * x.d

FGe(x, y) == FLe(y, x)
FLt(x, y) == FLe(x, y) /\ x # y

FAbs(x) == IF IsNaN(x) THEN x ELSE [x EXCEPT !.n = Abs(x.n)]
FMax(x, y) == IF FGe(x, y) THEN x ELSE y

\* The sum of f[i] over the indices 0 .. n-1, added left to right.
RECURSIVE FSum(_, _)
FSum(f, n) == IF n = 0 THEN Zero ELSE FAdd(FSum(f, n - 1), f[n - 1])

RECURSIVE ISum(_, _)
ISum(f, n) == IF n = 0 THEN 0 ELSE ISum(f, n - 1) + f[n - 1]

Range(n) == 0 .. (n - 1)

(***************************************************************************)
(* Bounds of the model.                                                    *)
(***************************************************************************)
MaxExtentNum == 6
MaxExtentDen == 3
MaxMeshSize == 4
MaxSeparation == 3
MaxDistance == 2
MaxRadius == 2
MaxBins == 2
MaxTimeSteps == 2
MaxOutputs == 2
MaxAxis1 == 2
MaxAxis2 == 2
MaxGridSize == 2

(***************************************************************************)
(* State.                                                                  *)
(*   mesh    a call of get_meshgrid: its arguments and what it returned    *)
(*   planet  a Planet: its fields and what get_sky_coordinate_maps returned*)
(*   star    a Star: its fields and the maps cached for the context        *)
(*   star_call  the last call of one of the star's two getters             *)
(*   context the pipeline's Context: data, templates, settings.grid_size  *)
(*           and the two output maps                                       *)
(*   pc, index_template, data_variance, cost_function, optimized_flux,     *)
(*   raised  MLExtractionModule.apply: where it is, its locals, and the    *)
(*           exception it ended with                                       *)
(*   lapack  how the build's numpy.linalg.inv treats a non-finite entry    *)
(***************************************************************************)
VARIABLES mesh, planet, star, star_call,
          context, pc, index_template, data_variance, cost_function,
          optimized_flux, raised, lapack

sky == <<mesh, planet, star, star_call>>
mlm == <<context, pc, index_template, data_variance, cost_function,
         optimized_flux, raised, lapack>>
vars == <<mesh, planet, star, star_call, context, pc, index_template,
          data_variance, cost_function, optimized_flux, raised, lapack>>

(***************************************************************************)
(* lifesim2/util/grid.py                                                   *)
(***************************************************************************)
\* numpy.linspace(start, stop, num) with endpoint=True: num samples
\* start + i * step, step = (stop - start) / (num - 1); for num = 1 the
\* single sample is start; for num > 1 the last sample is set to stop.
LinspaceNoEndpoint(start, stop, num) ==
    [i \in Range(num) |-> FAdd(start, FMul(Int2F(i), FDiv(FSub(stop, start), Int2F(num))))]

Linspace(start, stop, num) ==
    LET div == num - 1
        delta == FSub(stop, start)
        step == IF div > 0 THEN FDiv(delta, Int2F(div)) ELSE NaN
        y == [i \in Range(num) |->
                IF div > 0 THEN FAdd(FMul(Int2F(i), step), start)
                ELSE FAdd(FMul(Int2F(i), delta), start)]
    IN [i \in Range(num) |-> IF num > 1 /\ i = num - 1 THEN stop ELSE y[i]]

\* numpy.meshgrid(x, y) with the default indexing "xy": X[i][j] = x[j] and
\* Y[i][j] = y[i].
Meshgrid(x, y, nx, ny) ==
    (0 :> [i \in Range(ny) |-> [j \in Range(nx) |-> x[j]]])
    @@ (1 :> [i \in Range(ny) |-> [j \in Range(nx) |-> y[i]]])

Half(x) == FDiv(x, Int2F(2))

get_meshgrid_no_endpoint(full_extent, grid_size) ==
    LET linspace == LinspaceNoEndpoint(FNeg(Half(full_extent)), Half(full_extent), grid_size)
    IN Meshgrid(linspace, linspace, grid_size, grid_size)

get_meshgrid(full_extent, grid_size) ==
    LET linspace == Linspace(FNeg(Half(full_extent)), Half(full_extent), grid_size)
    IN Meshgrid(linspace, linspace, grid_size, grid_size)

Extents == {Num(p, q) : p \in 1 .. MaxExtentNum, q \in 1 .. MaxExtentDen}

MeshIdle == [full_extent |-> Zero, grid_size |-> 0, returned |-> FALSE, result |-> None]

InitMesh ==
    /\ \E e \in Extents, n \in 1 .. MaxMeshSize :
          mesh = [full_extent |-> e, grid_size |-> n, returned |-> FALSE, result |-> None]

\* A caller evaluates get_meshgrid(full_extent, grid_size).
CallGetMeshgrid ==
    /\ ~mesh.returned
    /\ mesh.grid_size >= 1
    /\ mesh' = [mesh EXCEPT !.returned = TRUE,
                            !.result = get_meshgrid(mesh.full_extent, mesh.grid_size)]
    /\ UNCHANGED <<planet, star, star_call, mlm>>

(***************************************************************************)
(* sygn/core/modules/target_system/planet.py                               *)
(***************************************************************************)
\* An angle is kept as the physical quantity, in radians.  The program holds
\* it as an astropy Quantity in arcsec: to(u.arcsec) changes the unit and the
\* number together, and get_meshgrid takes the number out and puts the same
\* unit back, so every angle of one source carries the same unit throughout.
Margin == Num(105, 100)

star_angular_separation_x(p) == Num(p.star_separation_x, p.star_distance)
star_angular_separation_y(p) == Num(p.star_separation_y, p.star_distance)

get_sky_coordinate_maps(p) ==
    IF FGe(star_angular_separation_x(p), star_angular_separation_y(p))
    THEN get_meshgrid(FMul(Int2F(2), FMul(Margin, star_angular_separation_x(p))), p.grid_size)
    ELSE get_meshgrid(FMul(Int2F(2), FMul(Margin, star_angular_separation_y(p))), p.grid_size)

PlanetIdle ==
    [star_separation_x |-> 0, star_separation_y |-> 0, star_distance |-> 1,
     grid_size |-> 0, returned |-> FALSE, sky_coordinate_maps |-> None]

InitPlanet ==
    \E sx \in -MaxSeparation .. MaxSeparation, sy \in -MaxSeparation .. MaxSeparation,
       dist \in 1 .. MaxDistance, n \in 1 .. MaxMeshSize :
        planet = [star_separation_x |-> sx, star_separation_y |-> sy,
                  star_distance |-> dist, grid_size |-> n, returned |-> FALSE,
                  sky_coordinate_maps |-> None]

\* A caller evaluates planet.get_sky_coordinate_maps() and keeps the maps.
CallGetSkyCoordinateMaps ==
    /\ ~planet.returned
    /\ planet.grid_size >= 1
    /\ planet' = [planet EXCEPT !.returned = TRUE,
                                !.sky_coordinate_maps = get_sky_coordinate_maps(planet)]
    /\ UNCHANGED <<mesh, star, star_call, mlm>>

(***************************************************************************)
(* Grid utilities: claims.                                                 *)
(***************************************************************************)
\* The shape of a two-dimensional array kept as rows of columns.
IsShape2(a, rows, cols) ==
    /\ DOMAIN a = Range(rows)
    /\ \A i \in Range(rows) : DOMAIN a[i] = Range(cols)

MeshValues(m, n) == {m[c][i][j] : c \in {0, 1}, i \in Range(n), j \in Range(n)}

MeshWithin(m, n, e) ==
    \A v \in MeshValues(m, n) : FLe(FNeg(Half(e)), v) /\ FLe(v, Half(e))

MeshSymmetric(m, n) ==
    \A v \in MeshValues(m, n) : FNeg(v) \in MeshValues(m, n)

\* C7, as claimed: for every grid_size >= 1 and positive extent E the two
\* arrays get_meshgrid returns have shape (grid_size, grid_size), every value
\* lies in [-E/2, E/2], and v is a coordinate iff -v is.
C7_SymmetricForEveryGridSize ==
    mesh.returned =>
        /\ IsShape2(mesh.result[0], mesh.grid_size, mesh.grid_size)
        /\ IsShape2(mesh.result[1], mesh.grid_size, mesh.grid_size)
        /\ MeshWithin(mesh.result, mesh.grid_size, mesh.full_extent)
        /\ MeshSymmetric(mesh.result, mesh.grid_size)

\* C7, amended: shape and range hold for every grid_size >= 1; the
\* coordinates are symmetric about zero for grid_size >= 2, and for
\* grid_size = 1 the only coordinate is -E/2.
C7_SymmetricFromTwo ==
    mesh.returned =>
        /\ IsShape2(mesh.result[0], mesh.grid_size, mesh.grid_size)
        /\ IsShape2(mesh.result[1], mesh.grid_size, mesh.grid_size)
        /\ MeshWithin(mesh.result, mesh.grid_size, mesh.full_extent)
        /\ mesh.grid_size >= 2 => MeshSymmetric(mesh.result, mesh.grid_size)
        /\ mesh.grid_size = 1 =>
              MeshValues(mesh.result, 1) = {FNeg(Half(mesh.full_extent))}

\* A three-point grid was built: both ends and the centre are coordinates.
C7_Witness ==
    /\ mesh.returned
    /\ mesh.grid_size = 3
    /\ MeshValues(mesh.result, 3) =
          {FNeg(Half(mesh.full_extent)), Zero, Half(mesh.full_extent)}

(***************************************************************************)
(* Planet: claims.                                                         *)
(***************************************************************************)
\* The extent the claim states: 2 * 1.05 * max(|sx|, |sy|).
AbsExtent(p) ==
    FMul(Int2F(2), FMul(Margin,
        FMax(FAbs(star_angular_separation_x(p)), FAbs(star_angular_separation_y(p)))))

InsideExtent(v, e) == FLe(FNeg(Half(e)), v) /\ FLe(v, Half(e))

\* C5: for separations of any sign the grid get_sky_coordinate_maps builds
\* has full extent 2 * 1.05 * max(|sx|, |sy|), and both separations lie
\* inside [-extent/2, +extent/2] of the grid that was built.
C5_PlanetNeverClipped ==
    planet.returned =>
        LET built == FMul(Int2F(-2), planet.sky_coordinate_maps[0][0][0])
        IN /\ planet.sky_coordinate_maps = get_meshgrid(AbsExtent(planet), planet.grid_size)
           /\ InsideExtent(star_angular_separation_x(planet), built)
           /\ InsideExtent(star_angular_separation_y(planet), built)

(***************************************************************************)
(* sygn/core/entities/photon_sources/star.py                               *)
(***************************************************************************)
FluxValues == {2, 5}

\* create_blackbody_spectrum: one mean spectral flux density per wavelength
\* bin.  Its code is outside the modelled files; any positive spectrum over
\* 1 .. MaxBins bins is a possible result.
BlackbodySpectra ==
    UNION {[Range(w) -> {Int2F(v) : v \in FluxValues}] : w \in 1 .. MaxBins}

angular_radius(s) == Num(s.radius, s.distance)

Coordinates(x, y) == [x |-> x, y |-> y]

_calculate_sky_coordinates(s, grid_size) ==
    LET sky_coordinates ==
            get_meshgrid(FMul(Int2F(2), FMul(Margin, angular_radius(s))), grid_size)
    IN Coordinates(sky_coordinates[0], sky_coordinates[1])

\* numpy.sqrt(q) <= r for q >= 0.
SqrtLe(q, r) == FGe(r, Zero) /\ FLe(q, FMul(r, r))

\* b * v for a boolean b: True counts as 1, False as 0.
BoolTimes(b, v) == IF b THEN v ELSE FMul(Zero, v)

_calculate_sky_brightness_distribution_x_only(s) ==
    LET n == Cardinality(DOMAIN s.sky_coordinates.x)
        radius_map == [i \in Range(n) |-> [j \in Range(n) |->
            SqrtLe(FMul(s.sky_coordinates.x[i][j], s.sky_coordinates.x[i][j]),
                   angular_radius(s))]]
    IN [index_wavelength \in DOMAIN s.mean_spectral_flux_density |->
          [i \in Range(n) |-> [j \in Range(n) |->
              BoolTimes(radius_map[i][j], s.mean_spectral_flux_density[index_wavelength])]]]

_calculate_sky_brightness_distribution(s) ==
    LET n == Cardinality(DOMAIN s.sky_coordinates.x)
        radius_map == [i \in Range(n) |-> [j \in Range(n) |->
            SqrtLe(FAdd(FMul(s.sky_coordinates.x[i][j], s.sky_coordinates.x[i][j]),
                        FMul(s.sky_coordinates.y[i][j], s.sky_coordinates.y[i][j])),
                   angular_radius(s))]]
    IN [index_wavelength \in DOMAIN s.mean_spectral_flux_density |->
          [i \in Range(n) |-> [j \in Range(n) |->
              BoolTimes(radius_map[i][j], s.mean_spectral_flux_density[index_wavelength])]]]

get_sky_coordinates(s, index_time, index_wavelength) == s.sky_coordinates

get_sky_brightness_distribution_first_bin(s, index_time, index_wavelength) ==
    s.sky_brightness_distribution[0]

get_sky_brightness_distribution(s, index_time, index_wavelength) ==
    s.sky_brightness_distribution[index_wavelength]

StarIdle ==
    [radius |-> 1, distance |-> 1, grid_size |-> 0, prepared |-> FALSE,
     mean_spectral_flux_density |-> None, sky_coordinates |-> None,
     sky_brightness_distribution |-> None]

NoCall == [op |-> "none", index_time |-> 0, index_wavelength |-> 0, result |-> None]

InitStar ==
    /\ \E r \in 1 .. MaxRadius, dist \in 1 .. MaxDistance, n \in 1 .. MaxMeshSize :
          star = [StarIdle EXCEPT !.radius = r, !.distance = dist, !.grid_size = n]
    /\ star_call = NoCall

\* The source is prepared for a context: the spectrum, then the coordinate
\* map, then the brightness cube are computed once and kept.
Prepare ==
    /\ ~star.prepared
    /\ star.grid_size >= 1
    /\ \E spectrum \in BlackbodySpectra :
          LET s1 == [star EXCEPT !.mean_spectral_flux_density = spectrum]
              s2 == [s1 EXCEPT !.sky_coordinates = _calculate_sky_coordinates(s1, s1.grid_size)]
              s3 == [s2 EXCEPT !.sky_brightness_distribution =
                                   _calculate_sky_brightness_distribution(s2)]
          IN star' = [s3 EXCEPT !.prepared = TRUE]
    /\ UNCHANGED <<mesh, planet, star_call, mlm>>

GetSkyCoordinates ==
    /\ star.prepared
    /\ \E index_time \in Range(MaxTimeSteps),
          index_wavelength \in DOMAIN star.mean_spectral_flux_density :
          star_call' = [op |-> "get_sky_coordinates", index_time |-> index_time,
                        index_wavelength |-> index_wavelength,
                        result |-> get_sky_coordinates(star, index_time, index_wavelength)]
    /\ UNCHANGED <<mesh, planet, star, mlm>>

GetSkyBrightnessDistribution ==
    /\ star.prepared
    /\ \E index_time \in Range(MaxTimeSteps),
          index_wavelength \in DOMAIN star.mean_spectral_flux_density :
          star_call' = [op |-> "get_sky_brightness_distribution",
                        index_time |-> index_time,
                        index_wavelength |-> index_wavelength,
                        result |-> get_sky_brightness_distribution(star, index_time,
                                                                   index_wavelength)]
    /\ UNCHANGED <<mesh, planet, star, mlm>>

(***************************************************************************)
(* Star: claims.                                                           *)
(***************************************************************************)
TimeIndices == Range(MaxTimeSteps)
Bins(s) == DOMAIN s.mean_spectral_flux_density

InDisk(x, y, r) ==
    (x.n * x.n * y.d * y.d + y.n * y.n * x.d * x.d) * r.d * r.d
        <= r.n * r.n * x.d * x.d * y.d * y.d

\* C8: the coordinate map spans 2 * 1.05 * angular_radius, the brightness
\* cube has one (grid_size, grid_size) map per wavelength bin, and each pixel
\* holds the bin's mean spectral flux density when its radial distance is at
\* most angular_radius and zero otherwise.
C8_DiskMaskPerBin ==
    star.prepared =>
        LET R == angular_radius(star)
            n == star.grid_size
            half == Num(21 * star.radius, 20 * star.distance)
        IN /\ star.sky_coordinates.x[0][0] = FNeg(half)
           /\ n >= 2 => star.sky_coordinates.x[0][n - 1] = half
           /\ DOMAIN star.sky_brightness_distribution = Bins(star)
           /\ \A w \in Bins(star) :
                 /\ IsShape2(star.sky_brightness_distribution[w], n, n)
                 /\ \A i \in Range(n), j \in Range(n) :
                       star.sky_brightness_distribution[w][i][j] =
                           IF InDisk(star.sky_coordinates.x[i][j],
                                     star.sky_coordinates.y[i][j], R)
                           THEN star.mean_spectral_flux_density[w]
                           ELSE Zero

\* A prepared star with two bins of different flux whose grid has a pixel on
\* an axis outside the disk and a pixel inside it.
C8_Witness ==
    /\ star.prepared
    /\ star.grid_size = 3
    /\ Cardinality(Bins(star)) = 2
    /\ star.mean_spectral_flux_density[0] # star.mean_spectral_flux_density[1]
    /\ star.sky_brightness_distribution[1][1][1] = star.mean_spectral_flux_density[1]
    /\ star.sky_brightness_distribution[1][0][1] = Zero

(***************************************************************************)
(* sygn/core/modules/mlm_extraction_module.py                              *)
(*                                                                         *)
(* An array is a function over 0 .. n-1 per axis, nested outermost first.  *)
(***************************************************************************)
Size(a) == Cardinality(DOMAIN a)
Shape3(a) == <<Size(a), Size(a[0]), Size(a[0][0])>>

IMax(i, j) == IF i >= j THEN i ELSE j

\* numpy broadcasting of two shapes of the same rank: per axis the lengths
\* are equal or one of them is 1; the result has the longer length.
Broadcastable(s1, s2) ==
    \A k \in DOMAIN s1 : s1[k] = s2[k] \/ s1[k] = 1 \/ s2[k] = 1
BroadcastShape(s1, s2) == [k \in DOMAIN s1 |-> IMax(s1[k], s2[k])]
\* The index into an axis of length len that broadcasting reads for index i.
Bx(i, len) == IF len = 1 THEN 0 ELSE i

\* numpy.var(data, axis=2): per (i, j) the mean of the squared deviations
\* from the mean along the last axis.
VarAxis1(data) ==
    [i \in DOMAIN data |-> [k \in DOMAIN data[0][0] |->
        LET n == Size(data[i])
            mean == FDiv(Int2F(ISum([j \in Range(n) |-> data[i][j][k]], n)), Int2F(n))
        IN FDiv(FSum([j \in Range(n) |->
                        FMul(FSub(Int2F(data[i][j][k]), mean),
                             FSub(Int2F(data[i][j][k]), mean))], n),
                Int2F(n))]]

VarAxis2Sample(data) ==
    [i \in DOMAIN data |-> [j \in DOMAIN data[i] |->
        LET n == Size(data[i][j])
            mean == FDiv(Int2F(ISum(data[i][j], n)), Int2F(n))
        IN FDiv(FSum([k \in Range(n) |->
                        FMul(FSub(Int2F(data[i][j][k]), mean),
                             FSub(Int2F(data[i][j][k]), mean))], n),
                Int2F(n - 1))]]

VarAxis2(data) ==
    [i \in DOMAIN data |-> [j \in DOMAIN data[i] |->
        LET n == Size(data[i][j])
            mean == FDiv(Int2F(ISum(data[i][j], n)), Int2F(n))
        IN FDiv(FSum([k \in Range(n) |->
                        FMul(FSub(Int2F(data[i][j][k]), mean),
                             FSub(Int2F(data[i][j][k]), mean))], n),
                Int2F(n))]]

Zeros2(d0, d1) == [i \in Range(d0) |-> [j \in Range(d1) |-> Zero]]
Zeros3(d0, d1, d2) == [i \in Range(d0) |-> Zeros2(d1, d2)]

\* np.sum(context.data * template, axis=2) / data_variance
matrix_c(data, template, variance) ==
    LET sd == Shape3(data)
        st == Shape3(template)
        sp == BroadcastShape(sd, st)
        total == [i \in Range(sp[1]) |-> [j \in Range(sp[2]) |->
            ISum([k \in Range(sp[3]) |->
                    data[Bx(i, sd[1])][Bx(j, sd[2])][Bx(k, sd[3])]
                    * template[Bx(i, st[1])][Bx(j, st[2])][Bx(k, st[3])]], sp[3])]]
    IN [i \in Range(sp[1]) |-> [j \in Range(sp[2]) |->
          FDiv(Int2F(total[i][j]), variance[Bx(i, sd[1])][Bx(j, sd[2])])]]

\* np.sum(template ** 2, axis=2) / data_variance
matrix_b_elements(data, template, variance) ==
    LET sd == Shape3(data)
        st == Shape3(template)
        sp == BroadcastShape(sd, st)
        total == [i \in Range(st[1]) |-> [j \in Range(st[2]) |->
            ISum([k \in Range(st[3]) |-> template[i][j][k] * template[i][j][k]], st[3])]]
    IN [i \in Range(sp[1]) |-> [j \in Range(sp[2]) |->
          FDiv(Int2F(total[Bx(i, st[1])][Bx(j, st[2])]),
               variance[Bx(i, sd[1])][Bx(j, sd[2])])]]

\* numpy.linalg.inv raises LinAlgError when the LU factorisation meets an
\* exact zero pivot: here a zero on the diagonal.
Singular(elements) == \E j \in DOMAIN elements : IsFinite(elements[j]) /\ elements[j].n = 0

\* What LAPACK does with a non-finite entry is the build's, the same for a
\* whole run: either each diagonal entry is inverted on its own (1 / Inf = 0,
\* 1 / NaN = NaN), or the NaNs of the elimination spread over the inverse.
InvModes == {"entrywise", "spread"}

\* np.diag(np.linalg.inv(np.diag(elements))) for a non-singular diagonal.
InvDiag(elements, mode) ==
    IF mode = "spread" /\ \E j \in DOMAIN elements : ~IsFinite(elements[j])
    THEN [j \in DOMAIN elements |-> NaN]
    ELSE [j \in DOMAIN elements |-> FDiv(Int2F(1), elements[j])]

\* np.where(x >= 0, x, 0)
KeepAll(x) == x

Positivity(x) == IF FGe(x, Zero) THEN x ELSE Zero

\* Lines 48-53 for one output: the optimized flux vector, constrained.
FluxRow(b_row, c_row, mode) ==
    LET inv == InvDiag(b_row, mode)
    IN [j \in DOMAIN b_row |-> Positivity(FMul(inv[j], c_row[j]))]

\* Lines 56-57 for one output.
CostRowAdditive(flux_row, c_row) == [j \in DOMAIN flux_row |-> FAdd(flux_row[j], c_row[j])]

CostRow(flux_row, c_row) == [j \in DOMAIN flux_row |-> FMul(flux_row[j], c_row[j])]

\* The inner loop over the outputs (lines 43-57) up to the first exception:
\* the inverse first, then the assignment into the row of optimized_flux,
\* which has len(context.data[0]) entries.  (Every template has the data's
\* number of outputs, so index_output stays inside optimized_flux.)
RECURSIVE InnerLoopError(_, _, _)
InnerLoopError(b, index_output, row_len) ==
    IF index_output = Size(b) THEN "none"
    ELSE IF Singular(b[index_output]) THEN "LinAlgError"
    ELSE IF Size(b[index_output]) # row_len THEN "ValueError"
    ELSE InnerLoopError(b, index_output + 1, row_len)

\* One pass of the loop over the templates (lines 35-57): the exception it
\* ends with, or the rows it writes for this template.
TemplatePass(data, template, variance, mode) ==
    IF ~Broadcastable(Shape3(data), Shape3(template))
    THEN [error |-> "ValueError", flux |-> None, cost |-> None]
    ELSE LET c == matrix_c(data, template, variance)
             b == matrix_b_elements(data, template, variance)
             error == InnerLoopError(b, 0, Size(data[0]))
             flux == [o \in DOMAIN b |-> FluxRow(b[o], c[o], mode)]
         IN IF error # "none"
            THEN [error |-> error, flux |-> None, cost |-> None]
            ELSE [error |-> "none", flux |-> flux,
                  cost |-> [o \in DOMAIN flux |-> CostRow(flux[o], c[o])]]

\* np.sum(cost_function, axis=2)
SumAxis2(a) == [i \in DOMAIN a |-> [j \in DOMAIN a[i] |-> FSum(a[i][j], Size(a[i][j]))]]

\* The elements of an array in C order.
Flatten2(a) ==
    LET d1 == Size(a[0]) IN [f \in Range(Size(a) * d1) |-> a[f \div d1][f % d1]]
Flatten3(a) ==
    LET d1 == Size(a[0])
        d2 == Size(a[0][0])
    IN [f \in Range(Size(a) * d1 * d2) |-> a[f \div (d1 * d2)][(f \div d2) % d1][f % d2]]

\* ndarray.reshape(d0, d1, d2) of the C-ordered elements flat.
ReshapeFortran(flat, d0, d1, d2) ==
    [i \in Range(d0) |-> [j \in Range(d1) |-> [k \in Range(d2) |->
        flat[i + d0 * (j + d1 * k)]]]]

Reshape(flat, d0, d1, d2) ==
    [i \in Range(d0) |-> [j \in Range(d1) |-> [k \in Range(d2) |->
        flat[(i * d1 + j) * d2 + k]]]]

(***************************************************************************)
(* The inputs: data cubes and template lists.                              *)
(***************************************************************************)
\* Data cubes: "flat" is constant (every variance is zero), "rise" grows
\* along the last axis at a rate that depends on the second, "partly_flat"
\* is constant in its first channel only.
DataKinds == {"flat", "rise", "partly_flat"}

DataValue(kind, o, a, b) ==
    CASE kind = "flat" -> 4
      [] kind = "rise" -> b * (a + 1) + 2 * a + o
      [] kind = "partly_flat" -> IF a = 0 THEN 3 ELSE b - a

\* Template lists: "match" rises like the data and differs per template,
\* "blank" has an all-zero first template, "varied" changes sign with the
\* template and the channel, so that it is anti-correlated with rising data
\* in some entries and correlated in others.
TemplateKinds == {"match", "blank", "varied"}

TemplateValue(kind, t, o, a, b) ==
    CASE kind = "match" -> b + 1 + t
      [] kind = "blank" -> IF t = 0 THEN 0 ELSE b + t
      [] kind = "varied" -> (2 * ((t + a) % 2) - 1) * (b + 1 + t) + o

\* The trailing axes (e1, e2) of the one template that may differ from the
\* data's (d1, d2): the same, an axis of length 1, or an axis one longer.
OddShapes(d1, d2) ==
    {<<d1, d2>>, <<d1, 1>>, <<1, d2>>, <<d1, d2 + 1>>, <<d1 + 1, d2>>}

DataCube(kind, d0, d1, d2) ==
    [o \in Range(d0) |-> [a \in Range(d1) |-> [b \in Range(d2) |-> DataValue(kind, o, a, b)]]]

TemplateCube(kind, t, d0, d1, d2) ==
    [o \in Range(d0) |-> [a \in Range(d1) |-> [b \in Range(d2) |->
        TemplateValue(kind, t, o, a, b)]]]

ContextIdle ==
    [data |-> None, templates |-> None, grid_size |-> 0,
     cost_function |-> None, optimized_flux |-> None]

MlmIdle ==
    /\ context = ContextIdle
    /\ pc = "idle"
    /\ index_template = 0
    /\ data_variance = None
    /\ cost_function = None
    /\ optimized_flux = None
    /\ raised = "none"
    /\ lapack = "entrywise"

\* The context apply is given: a data cube, grid_size * grid_size templates
\* with the data's number of outputs, all of the data's shape but one (the
\* first or the last), whose two trailing axes are free.
InitMlm ==
    /\ \E d0 \in 1 .. MaxOutputs, d1 \in 1 .. MaxAxis1, d2 \in 1 .. MaxAxis2,
          grid_size \in 1 .. MaxGridSize,
          dk \in DataKinds, tk \in TemplateKinds :
       \E odd \in {0, grid_size * grid_size - 1}, e \in OddShapes(d1, d2) :
          context = [data |-> DataCube(dk, d0, d1, d2),
                     templates |-> [t \in Range(grid_size * grid_size) |->
                         IF t = odd THEN TemplateCube(tk, t, d0, e[1], e[2])
                         ELSE TemplateCube(tk, t, d0, d1, d2)],
                     grid_size |-> grid_size,
                     cost_function |-> None, optimized_flux |-> None]
    /\ pc = "start"
    /\ index_template = 0
    /\ data_variance = None
    /\ cost_function = None
    /\ optimized_flux = None
    /\ raised = "none"
    /\ lapack \in InvModes

\* Lines 30-33: the two zero arrays and the variance of the data.
ApplyBegin ==
    /\ pc = "start"
    /\ cost_function' = Zeros3(Size(context.templates), Size(context.data), Size(context.data[0]))
    /\ optimized_flux' = Zeros3(Size(context.templates), Size(context.data), Size(context.data[0]))
    /\ data_variance' = VarAxis2(context.data)
    /\ index_template' = 0
    /\ pc' = "loop"
    /\ UNCHANGED <<context, raised, lapack, sky>>

\* Lines 35-57: one template.
ApplyTemplate ==
    /\ pc = "loop"
    /\ index_template < Size(context.templates)
    /\ LET pass == TemplatePass(context.data, context.templates[index_template],
                                data_variance, lapack)
       IN IF pass.error # "none"
          THEN /\ raised' = pass.error
               /\ pc' = "raised"
               /\ UNCHANGED <<index_template, cost_function, optimized_flux>>
          ELSE /\ optimized_flux' = [optimized_flux EXCEPT ![index_template] = pass.flux]
               /\ cost_function' = [cost_function EXCEPT ![index_template] = pass.cost]
               /\ index_template' = index_template + 1
               /\ UNCHANGED <<pc, raised>>
    /\ UNCHANGED <<context, data_variance, lapack, sky>>

\* Lines 59-69: the sum over the last axis, the two reshapes, the context.
ApplyFinish ==
    /\ pc = "loop"
    /\ index_template = Size(context.templates)
    /\ LET g == context.grid_size
           total == SumAxis2(cost_function)
           cost_size == Size(total) * Size(total[0])
           flux_size == Size(optimized_flux) * Size(optimized_flux[0]) * Size(optimized_flux[0][0])
           last == Size(optimized_flux[0][0])
       IN IF cost_size # g * g * Size(total[0]) \/ flux_size # g * g * last
          THEN /\ raised' = "ValueError"
               /\ pc' = "raised"
               /\ UNCHANGED <<context, cost_function, optimized_flux>>
          ELSE /\ cost_function' = Reshape(Flatten2(total), g, g, Size(total[0]))
               /\ optimized_flux' = Reshape(Flatten3(optimized_flux), g, g, last)
               /\ context' = [context EXCEPT
                     !.cost_function = Reshape(Flatten2(total), g, g, Size(total[0])),
                     !.optimized_flux = Reshape(Flatten3(optimized_flux), g, g, last)]
               /\ pc' = "done"
               /\ UNCHANGED raised
    /\ UNCHANGED <<index_template, data_variance, lapack, sky>>

(***************************************************************************)
(* Extraction: claims.                                                     *)
(***************************************************************************)
Outputs == Size(context.data)
Axis1 == Size(context.data[0])
Axis2 == Size(context.data[0][0])
Templates == Range(Size(context.templates))
Grid == Range(context.grid_size)

Finished == pc \in {"done", "raised"}
VarianceComputed == pc \in {"loop", "done", "raised"}

\* Every entry of a three-dimensional array is >= 0 (so none is NaN).
AllNonNegative(a) ==
    \A i \in DOMAIN a : \A j \in DOMAIN a[i] : \A k \in DOMAIN a[i][j] :
        FGe(a[i][j][k], Zero)

\* The unconstrained estimate c / b of template t, output o, entry a.
Unconstrained(t, o, a) ==
    FDiv(matrix_c(context.data, context.templates[t], data_variance)[o][a],
         matrix_b_elements(context.data, context.templates[t], data_variance)[o][a])

\* C1: once apply has completed, every entry of context.optimized_flux is
\* >= 0; the same holds of apply's own optimized_flux array at every step.
C1_OptimizedFluxNonNegative ==
    /\ pc = "done" => AllNonNegative(context.optimized_flux)
    /\ pc \in {"loop", "done"} => AllNonNegative(optimized_flux)

\* apply completed on a template whose unconstrained estimate is negative,
\* and the entry it wrote for it is zero.
C1_Witness ==
    /\ pc = "done"
    /\ \E y \in Grid, x \in Grid, a \in Range(Axis1) :
          /\ FLt(Unconstrained(y * context.grid_size + x, 0, a), Zero)
          /\ context.optimized_flux[y][x][a] = Zero

TrailingAxes(a) == <<Size(a[0]), Size(a[0][0])>>

TrailingMismatch ==
    \E t \in Templates : TrailingAxes(context.templates[t]) # TrailingAxes(context.data)

\* C2: with grid_size * grid_size templates of the data's shape, apply
\* produces cost_function and optimized_flux of shape (grid_size, grid_size,
\* outputs), for any number of outputs.  (A run that ends in the LinAlgError
\* of a template with an all-zero channel is left aside.)
C2_BothMapsGridByOutputs ==
    (Finished /\ ~TrailingMismatch /\ raised # "LinAlgError") =>
        /\ pc = "done"
        /\ Shape3(context.cost_function) = <<context.grid_size, context.grid_size, Outputs>>
        /\ Shape3(context.optimized_flux) = <<context.grid_size, context.grid_size, Outputs>>

\* C3: when a template's trailing two axes differ from the data's, apply
\* ends in ShapeMismatchError, computes no array before that, and leaves
\* context.cost_function and context.optimized_flux unset.
C3_ShapeMismatchFailsFast ==
    TrailingMismatch =>
        /\ data_variance = None
        /\ cost_function = None
        /\ optimized_flux = None
        /\ context.cost_function = None
        /\ context.optimized_flux = None
        /\ pc # "done"
        /\ pc = "raised" => raised = "ShapeMismatchError"

ZeroVariance ==
    \E o \in DOMAIN data_variance : \E a \in DOMAIN data_variance[o] :
        data_variance[o][a] = Zero

\* C4: when the variance of a channel is zero, apply ends in
\* DegenerateVarianceError and never returns a context whose maps were
\* computed from a division by zero.
C4_ZeroVarianceIsAnError ==
    (VarianceComputed /\ ZeroVariance) =>
        /\ pc # "done"
        /\ pc = "raised" => raised = "DegenerateVarianceError"

\* C9, as claimed: for a cube indexed (output o, time t, wavelength w) the
\* variance has one value per (o, w): the variance over t of data[o][t][w].
C9_VarianceAlongSecondAxis ==
    VarianceComputed => data_variance = VarAxis1(context.data)

\* C9, amended: the variance is taken along the last axis of the cube, which
\* the code's comments make the time axis of a cube indexed (output o,
\* wavelength w, time t): one value per (o, w), the variance over t of
\* data[o][w][t], that is (n * sum x^2 - (sum x)^2) / n^2 over its n samples.
C9_VarianceAlongLastAxis ==
    VarianceComputed =>
        /\ IsShape2(data_variance, Outputs, Axis1)
        /\ \A o \in Range(Outputs), w \in Range(Axis1) :
              LET x == context.data[o][w]
                  n == Axis2
                  sum == ISum(x, n)
                  squares == ISum([t \in Range(n) |-> x[t] * x[t]], n)
              IN data_variance[o][w] = Num(n * squares - sum * sum, n * n)

\* The variance of a cube with two wavelengths and two times was computed,
\* and it differs from the variance along the second axis.
C9_Witness ==
    /\ VarianceComputed
    /\ Axis1 = 2
    /\ Axis2 = 2
    /\ data_variance # VarAxis1(context.data)
    /\ \E o \in Range(Outputs), w \in Range(Axis1) : FLt(Zero, data_variance[o][w])

PositiveVariance ==
    \A o \in DOMAIN data_variance : \A a \in DOMAIN data_variance[o] :
        IsFinite(data_variance[o][a]) /\ FLt(Zero, data_variance[o][a])

\* Every template has a non-zero sum of squares in every channel.
NonZeroTemplates ==
    \A t \in Templates :
        \A o \in DOMAIN context.templates[t] : \A a \in DOMAIN context.templates[t][o] :
            \E k \in DOMAIN context.templates[t][o][a] : context.templates[t][o][a][k] # 0

\* What the claim says entry (t, o, a) of the cost function is: 0 where the
\* unconstrained estimate c / b was negative and clamped, c * c / b elsewhere.
ClaimedCost(t, o, a) ==
    LET c == matrix_c(context.data, context.templates[t], data_variance)[o][a]
        b == matrix_b_elements(context.data, context.templates[t], data_variance)[o][a]
    IN IF FLt(FDiv(c, b), Zero) THEN Zero ELSE FDiv(FMul(c, c), b)

\* C11: when every estimated variance is strictly positive and every template
\* has a non-zero sum of squares per channel, every entry of the cost function
\* apply computes is >= 0: each entry written by the loop is 0 where the flux
\* was clamped and c * c / b elsewhere, and each summed per-template cost that
\* apply returns is the sum of those entries and is never negative.
C11_CostNonNegative ==
    (VarianceComputed /\ PositiveVariance /\ NonZeroTemplates) =>
        /\ pc \in {"loop", "raised"} =>
              \A t \in Range(index_template) : \A o \in DOMAIN cost_function[t] :
                  \A a \in DOMAIN cost_function[t][o] :
                      /\ cost_function[t][o][a] = ClaimedCost(t, o, a)
                      /\ FGe(cost_function[t][o][a], Zero)
        /\ pc = "done" =>
              \A y \in Grid, x \in Grid : \A o \in DOMAIN context.cost_function[y][x] :
                  /\ context.cost_function[y][x][o]
                        = FSum([a \in Range(Axis1) |->
                                  ClaimedCost(y * context.grid_size + x, o, a)], Axis1)
                  /\ FGe(context.cost_function[y][x][o], Zero)

\* apply completed on positive variances and non-zero templates, with one
\* entry of a template clamped (it contributes 0) and another entry of the
\* same template unclamped, so that the returned cost is strictly positive.
C11_Witness ==
    /\ pc = "done"
    /\ PositiveVariance
    /\ NonZeroTemplates
    /\ \E y \in Grid, x \in Grid, a1 \in Range(Axis1), a2 \in Range(Axis1) :
          /\ FLt(Unconstrained(y * context.grid_size + x, 0, a1), Zero)
          /\ FLt(Zero, Unconstrained(y * context.grid_size + x, 0, a2))
          /\ FLt(Zero, context.cost_function[y][x][0])

(***************************************************************************)
(* Specifications, one per unit; the other units stay idle.                *)
(***************************************************************************)
StarUnused == star = StarIdle /\ star_call = NoCall
SkyIdle == mesh = MeshIdle /\ planet = PlanetIdle /\ StarUnused

InitGrid == InitMesh /\ planet = PlanetIdle /\ StarUnused /\ MlmIdle
NextGrid == CallGetMeshgrid
SpecGrid == InitGrid /\ [][NextGrid]_vars

InitPlanetSpec == InitPlanet /\ mesh = MeshIdle /\ StarUnused /\ MlmIdle
NextPlanet == CallGetSkyCoordinateMaps
SpecPlanet == InitPlanetSpec /\ [][NextPlanet]_vars

InitStarSpec == InitStar /\ mesh = MeshIdle /\ planet = PlanetIdle /\ MlmIdle
NextStar == Prepare \/ GetSkyCoordinates \/ GetSkyBrightnessDistribution
SpecStar == InitStarSpec /\ [][NextStar]_vars

Init == InitMlm /\ SkyIdle
Next == ApplyBegin \/ ApplyTemplate \/ ApplyFinish
Spec == Init /\ [][Next]_vars

====
